---- MODULE Spec2Model ----
(***************************************************************************)
(* Model of the synthetic speech detector (synthetic_speech_detector.py)   *)
(* and of the analysis run of its host script (streamlit_app.py).          *)
(*                                                                         *)
(* Probabilities and thresholds are fixed-point numbers in thousandths:    *)
(* 700 stands for 0.7, 1000 for 1.0.  Signal lengths are sample counts.    *)
(***************************************************************************)
EXTENDS Integers, Sequences, FiniteSets, TLC

VARIABLES
    detector,       \* the SyntheticSpeechDetector instance in use (model classes, threshold)
    lastLoad,       \* the last constructor call: the artifact it was given, whether it raised
    pc,             \* position of the current detect request
    calls,          \* the pipeline stages the current request has invoked, in order
    trimmed,        \* len(y_trim) right after librosa.effects.trim, -1 before that
    signal,         \* y_trim as extract_features holds it: length and peak amplitude
    features,       \* the feature list built by extract_features
    byLabel,        \* what the classifier assigned to each class label for this request
    probabilities,  \* predict_proba(...)[0]: the probabilities by output position
    cause,          \* what went wrong in the current request ("none" when nothing did)
    result,         \* the dict returned by detect
    prev,           \* the outcome of the previous finished request
    cached,         \* the detector held by st.cache_resource
    app,            \* position of the host script's analysis run
    tmpFiles,       \* how many temporary audio files the host script has left on disk
    xpc,            \* position of a direct extract_features call on the same detector
    xsignal,        \* y_trim of that call
    xfeatures       \* the feature list that call has built

vars == <<detector, lastLoad, pc, calls, trimmed, signal, features, byLabel,
          probabilities, cause, result, prev, cached, app, tmpFiles,
          xpc, xsignal, xfeatures>>

\* The state of the direct extract_features call.
xvars == <<xpc, xsignal, xfeatures>>

(***************************************************************************)
(* Program constants                                                       *)
(***************************************************************************)
DefaultThreshold == 700
SR == 16000
Duration == 4
NMfcc == 20
MfccHop == 256
NChroma == 12
NContrast == 7

\* Bounds of the model: how many samples around each length boundary are tried,
\* and how many temporary files may pile up before the host is no longer run.
Slack == 1
MaxTmp == 1

TargetLength == Duration * SR
MinLen == SR \div 2

\* Inputs the model draws from.
ClassLists == { <<0, 1>>, <<1, 0>>, <<0, 2>>, <<0>>, <<0, 1, 2>> }
Thresholds == { 500, DefaultThreshold, 900 }
Grid == { 200, 700, 800 }
Peaks == { 0, 500 }
Scalers == { "fitted" }
Lens == {0} \cup { MinLen - d : d \in 0..Slack } \cup { MinLen + d : d \in 0..Slack }
            \cup { TargetLength - d : d \in 0..Slack }
FileLens == Lens \cup { TargetLength + d : d \in 1..Slack }

Min(a, b) == IF a < b THEN a ELSE b
Range(s) == { s[i] : i \in 1..Len(s) }

NoDetector == [loaded |-> FALSE, classes |-> <<>>, scaler |-> "none", threshold |-> 0]
NoLoad == [attempted |-> FALSE, classes |-> <<>>, raised |-> FALSE]
NoSignal == [len |-> 0, peak |-> 0]
NoResult == [none |-> TRUE]
NoPrev == [done |-> FALSE, cause |-> "none", threshold |-> 0,
           probabilities |-> <<>>, result |-> NoResult]

(***************************************************************************)
(* SyntheticSpeechDetector.__init__                                        *)
(***************************************************************************)
\* Mutants of the class check: one that only counts the classes, one that
\* compares the labels as a set.
ClassesValid_AnyBinary(classes) == Len(classes) = 2
ClassesValid_AsSet(classes) == Len(classes) = 2 /\ Range(classes) = {0, 1}

\* np.array_equal(self.model.classes_, [0, 1])
ClassesValid(classes) == classes = <<0, 1>>

\* The constructor: joblib.load of either artifact may raise; a model whose
\* classes_ is not [0, 1] raises ValueError; otherwise the instance exists.
Ctor(loads, classes, scaler, threshold) ==
    IF ~loads \/ ~ClassesValid(classes)
    THEN [raised |-> TRUE, detector |-> NoDetector]
    ELSE [raised |-> FALSE,
          detector |-> [loaded |-> TRUE, classes |-> classes, scaler |-> scaler,
                        threshold |-> threshold]]

(***************************************************************************)
(* SyntheticSpeechDetector.extract_features                                *)
(***************************************************************************)
\* librosa.load(audio_path, sr=sr, duration=duration): at most duration seconds.
Load(fileLen) == Min(fileLen, TargetLength)

\* len(y_trim) < sr * 0.5
TooShort(n, sr) == 2 * n < sr

\* np.pad on the right up to target_length, or y_trim[:target_length]
FixLength(n) == IF n < TargetLength THEN n + (TargetLength - n) ELSE TargetLength

\* y_trim / max_amp when max_amp > 0: the peak becomes 1.0
Normalize(peak) == IF peak > 0 THEN (peak * 1000) \div peak ELSE peak

\* librosa's default hop_length, used by the calls that pass none.
DefaultHop == 512

\* A per-frame descriptor: rows x frames (frames are centred, one per hop).
Matrix(name, rows, n, hop) == [name |-> name, rows |-> rows, cols |-> 1 + n \div hop]

\* np.mean(m, axis=1), np.std(m, axis=1): one value per row
MeanAxis1(m) == [i \in 1..m.rows |-> <<m.name, "mean", i>>]
StdAxis1(m) == [i \in 1..m.rows |-> <<m.name, "std", i>>]
\* np.mean(m), np.std(m) of a one-row descriptor: one scalar
MeanAll(m) == <<m.name, "mean", 1>>
StdAll(m) == <<m.name, "std", 1>>

\* Mutant: spectral contrast appended before chroma.
FeatureList_ContrastFirst(n) ==
    LET mfcc == Matrix("mfcc", NMfcc, n, MfccHop)
        centroid == Matrix("centroid", 1, n, DefaultHop)
        rolloff == Matrix("rolloff", 1, n, DefaultHop)
        bandwidth == Matrix("bandwidth", 1, n, DefaultHop)
        zcr == Matrix("zcr", 1, n, DefaultHop)
        chroma == Matrix("chroma", NChroma, n, DefaultHop)
        contrast == Matrix("contrast", NContrast, n, DefaultHop)
    IN  MeanAxis1(mfcc) \o StdAxis1(mfcc)
        \o << MeanAll(centroid), StdAll(centroid), MeanAll(rolloff), StdAll(rolloff),
              MeanAll(bandwidth), StdAll(bandwidth) >>
        \o << MeanAll(zcr), StdAll(zcr) >>
        \o MeanAxis1(contrast)
        \o MeanAxis1(chroma)

\* The feature list in the order the extend/append calls build it.
FeatureList(n) ==
    LET mfcc == Matrix("mfcc", NMfcc, n, MfccHop)
        centroid == Matrix("centroid", 1, n, DefaultHop)
        rolloff == Matrix("rolloff", 1, n, DefaultHop)
        bandwidth == Matrix("bandwidth", 1, n, DefaultHop)
        zcr == Matrix("zcr", 1, n, DefaultHop)
        chroma == Matrix("chroma", NChroma, n, DefaultHop)
        contrast == Matrix("contrast", NContrast, n, DefaultHop)
    IN  MeanAxis1(mfcc) \o StdAxis1(mfcc)
        \o << MeanAll(centroid), StdAll(centroid), MeanAll(rolloff), StdAll(rolloff),
              MeanAll(bandwidth), StdAll(bandwidth) >>
        \o << MeanAll(zcr), StdAll(zcr) >>
        \o MeanAxis1(chroma)
        \o MeanAxis1(contrast)

(***************************************************************************)
(* SyntheticSpeechDetector.detect                                          *)
(***************************************************************************)
MsgExtract == << "Failed to extract features. Audio may be too short or corrupted." >>
MsgDetect(e) == << "Detection error: ", e >>

\* Mutant: detect goes on to the scaler although extract_features returned None.
FeaturesNone_GoesOn == [pc |-> "scale", result |-> NoResult]

\* if features is None: return {'error': ...}
FeaturesNone == [pc |-> "done", result |-> [error |-> MsgExtract]]

\* Mutant: no except clause, the exception leaves detect.
Caught_Propagates(e) == [pc |-> "raised", result |-> NoResult]

\* except Exception as e: return {'error': f'Detection error: {str(e)}'}
Caught(e) == [pc |-> "done", result |-> [error |-> MsgDetect(e)]]

\* self.model.predict_proba(features_scaled)[0]: one probability per entry of
\* classes_, in the order of classes_.
PredictProba(classes, bl) == [i \in 1..Len(classes) |-> bl[classes[i]]]

\* Mutants of the decision: the comparison made inclusive; the comparison reversed.
Decide_Inclusive(bonafide_prob, synthetic_prob, threshold) ==
    IF synthetic_prob >= threshold
    THEN [prediction |-> "Synthetic", confidence |-> synthetic_prob]
    ELSE [prediction |-> "Bonafide", confidence |-> bonafide_prob]
Decide_Inverted(bonafide_prob, synthetic_prob, threshold) ==
    IF synthetic_prob < threshold
    THEN [prediction |-> "Synthetic", confidence |-> synthetic_prob]
    ELSE [prediction |-> "Bonafide", confidence |-> bonafide_prob]

\* if synthetic_prob > self.threshold: ... else: ...
Decide(bonafide_prob, synthetic_prob, threshold) ==
    IF synthetic_prob > threshold
    THEN [prediction |-> "Synthetic", confidence |-> synthetic_prob]
    ELSE [prediction |-> "Bonafide", confidence |-> bonafide_prob]

\* The dict detect returns on success.
SuccessResult(probs, threshold) ==
    LET bonafide_prob == probs[1]
        synthetic_prob == probs[2]
        d == Decide(bonafide_prob, synthetic_prob, threshold)
    IN  [prediction |-> d.prediction,
         confidence |-> d.confidence,
         bonafide_probability |-> bonafide_prob,
         synthetic_probability |-> synthetic_prob,
         threshold |-> threshold,
         note |-> << "Using threshold: ", threshold >>]

(***************************************************************************)
(* State machine                                                           *)
(***************************************************************************)
Init ==
    /\ detector = NoDetector
    /\ lastLoad = NoLoad
    /\ pc = "idle"
    /\ calls = <<>>
    /\ trimmed = -1
    /\ signal = NoSignal
    /\ features = <<>>
    /\ byLabel = <<>>
    /\ probabilities = <<>>
    /\ cause = "none"
    /\ result = NoResult
    /\ prev = NoPrev
    /\ cached = NoDetector
    /\ app = "idle"
    /\ tmpFiles = 0
    /\ xpc = "idle"
    /\ xsignal = NoSignal
    /\ xfeatures = <<>>

\* The outcome of the request that has just finished, kept for comparison with
\* the next one.
Finished ==
    IF pc = "done"
    THEN [done |-> TRUE, cause |-> cause, threshold |-> detector.threshold,
          probabilities |-> probabilities, result |-> result]
    ELSE prev

\* No request is in flight.
NoRequest ==
    /\ pc' = "idle"
    /\ calls' = <<>>
    /\ trimmed' = -1
    /\ signal' = NoSignal
    /\ features' = <<>>
    /\ byLabel' = <<>>
    /\ probabilities' = <<>>
    /\ cause' = "none"
    /\ result' = NoResult

\* Entry of detect: nothing computed yet.
StartRequest ==
    /\ pc' = "preprocess"
    /\ calls' = <<>>
    /\ trimmed' = -1
    /\ signal' = NoSignal
    /\ features' = <<>>
    /\ byLabel' = <<>>
    /\ probabilities' = <<>>
    /\ cause' = "none"
    /\ result' = NoResult
    /\ prev' = Finished

\* detect returns h (a position and a dict) because of what.
Return(h, what) ==
    /\ pc' = h.pc
    /\ result' = h.result
    /\ cause' = what

\* SyntheticSpeechDetector(model_path, scaler_path, threshold) called directly
\* (test_detector.py, or any caller of the class).
Construct ==
    /\ app = "idle"
    /\ pc \in {"idle", "done"}
    /\ xpc \in {"idle", "done"}
    /\ \E loads \in BOOLEAN, classes \in ClassLists, scaler \in Scalers,
          threshold \in Thresholds :
         LET c == Ctor(loads, classes, scaler, threshold)
         IN  /\ detector' = c.detector
             /\ lastLoad' = [attempted |-> TRUE,
                             classes |-> IF loads THEN classes ELSE <<>>,
                             raised |-> c.raised]
    /\ prev' = Finished
    /\ NoRequest
    /\ UNCHANGED <<cached, app, tmpFiles>>
    /\ UNCHANGED xvars

\* detector.detect(audio_file) called directly.
Detect ==
    /\ app = "idle"
    /\ detector.loaded
    /\ pc \in {"idle", "done"}
    /\ StartRequest
    /\ UNCHANGED <<detector, lastLoad, cached, app, tmpFiles>>
    /\ UNCHANGED xvars

\* extract_features up to the normalisation: load, trim, minimum length, fixed
\* length, normalise.  A failed load is caught inside extract_features, which
\* returns None like a signal that is too short; detect then returns its error.
Preprocess ==
    /\ pc = "preprocess"
    /\ calls' = Append(calls, "preprocess")
    /\ \E decodes \in BOOLEAN, fileLen \in FileLens, t \in Lens, peak \in Peaks :
         /\ t <= Load(fileLen)
         /\ (t = 0) => (peak = 0)
         /\ IF ~decodes
            THEN /\ Return(FeaturesNone, "decode")
                 /\ UNCHANGED <<trimmed, signal>>
            ELSE IF TooShort(t, SR)
            THEN /\ trimmed' = t
                 /\ Return(FeaturesNone, "short")
                 /\ UNCHANGED signal
            ELSE /\ trimmed' = t
                 /\ signal' = [len |-> FixLength(t), peak |-> Normalize(peak)]
                 /\ pc' = "extract"
                 /\ UNCHANGED <<result, cause>>
    /\ UNCHANGED <<detector, lastLoad, features, byLabel, probabilities, prev,
                   cached, app, tmpFiles>>
    /\ UNCHANGED xvars

\* extract_features from the MFCC on: the descriptors, assembled in order.  An
\* exception in any of them is caught and None is returned.
ComputeFeatures ==
    /\ pc = "extract"
    /\ calls' = Append(calls, "extract")
    /\ signal' = NoSignal
    /\ \E ok \in BOOLEAN :
         IF ok
         THEN /\ features' = FeatureList(signal.len)
              /\ pc' = "scale"
              /\ UNCHANGED <<result, cause>>
         ELSE /\ Return(FeaturesNone, "features")
              /\ UNCHANGED features
    /\ UNCHANGED <<detector, lastLoad, trimmed, byLabel, probabilities, prev,
                   cached, app, tmpFiles>>
    /\ UNCHANGED xvars

\* Mutant: fit_transform in place of transform, which refits self.scaler on the
\* request's own vector.
Scale_Refits ==
    /\ pc = "scale"
    /\ calls' = Append(calls, "scale")
    /\ \E ok \in BOOLEAN :
         IF ok
         THEN /\ pc' = "classify"
              /\ detector' = [detector EXCEPT !.scaler = "refit"]
              /\ UNCHANGED <<result, cause>>
         ELSE /\ Return(Caught("transform"), "scale")
              /\ UNCHANGED detector
    /\ UNCHANGED <<lastLoad, trimmed, signal, features, byLabel,
                   probabilities, prev, cached, app, tmpFiles>>
    /\ UNCHANGED xvars

\* self.scaler.transform(features); it raises on a vector it was not fit for.
Scale ==
    /\ pc = "scale"
    /\ calls' = Append(calls, "scale")
    /\ \E ok \in BOOLEAN :
         IF ok
         THEN /\ pc' = "classify"
              /\ UNCHANGED <<result, cause>>
         ELSE Return(Caught("transform"), "scale")
    /\ UNCHANGED <<detector, lastLoad, trimmed, signal, features, byLabel,
                   probabilities, prev, cached, app, tmpFiles>>
    /\ UNCHANGED xvars

\* self.model.predict_proba(features_scaled)[0]
Classify ==
    /\ pc = "classify"
    /\ calls' = Append(calls, "classify")
    /\ \E ok \in BOOLEAN, bl \in [Range(detector.classes) -> Grid] :
         IF ok
         THEN /\ byLabel' = bl
              /\ probabilities' = PredictProba(detector.classes, bl)
              /\ pc' = "decide"
              /\ UNCHANGED <<result, cause>>
         ELSE /\ Return(Caught("predict_proba"), "classify")
              /\ UNCHANGED <<byLabel, probabilities>>
    /\ UNCHANGED <<detector, lastLoad, trimmed, signal, features, prev,
                   cached, app, tmpFiles>>
    /\ UNCHANGED xvars

\* probabilities[0], probabilities[1], the threshold decision, the result dict.
\* Indexing a shorter array raises IndexError, which detect catches.
DecideStep ==
    /\ pc = "decide"
    /\ calls' = Append(calls, "decide")
    /\ IF Len(probabilities) < 2
       THEN Return(Caught("index"), "decide")
       ELSE Return([pc |-> "done",
                    result |-> SuccessResult(probabilities, detector.threshold)], "none")
    /\ UNCHANGED <<detector, lastLoad, trimmed, signal, features, byLabel,
                   probabilities, prev, cached, app, tmpFiles>>
    /\ UNCHANGED xvars

(***************************************************************************)
(* streamlit_app.py: one run of the "Analyze Voice" button                 *)
(***************************************************************************)
\* with tempfile.NamedTemporaryFile(delete=False, suffix='.wav') as tmp_file:
\* the file is created, then written; a failed write leaves it behind and
\* lands in the except clause of the run.
AppSave ==
    /\ app = "idle"
    /\ pc \in {"idle", "done"}
    /\ tmpFiles < MaxTmp
    /\ tmpFiles' = tmpFiles + 1
    /\ \E wrote \in BOOLEAN : app' = IF wrote THEN "saved" ELSE "failed_write"
    /\ UNCHANGED <<detector, lastLoad, pc, calls, trimmed, signal, features, byLabel,
                   probabilities, cause, result, prev, cached>>
    /\ UNCHANGED xvars

\* detector = load_detector(): the cached instance, or a new one built with
\* the default threshold; a constructor that raises lands in the except clause.
AppLoadDetector ==
    /\ app = "saved"
    /\ IF cached.loaded
       THEN /\ detector' = cached
            /\ app' = "loaded"
            /\ UNCHANGED <<lastLoad, cached>>
       ELSE \E loads \in BOOLEAN, classes \in ClassLists, scaler \in Scalers :
              LET c == Ctor(loads, classes, scaler, DefaultThreshold)
              IN  /\ lastLoad' = [attempted |-> TRUE,
                                  classes |-> IF loads THEN classes ELSE <<>>,
                                  raised |-> c.raised]
                  /\ detector' = c.detector
                  /\ cached' = IF c.raised THEN cached ELSE c.detector
                  /\ app' = IF c.raised THEN "failed_load" ELSE "loaded"
    /\ prev' = Finished
    /\ NoRequest
    /\ UNCHANGED tmpFiles
    /\ UNCHANGED xvars

\* result = detector.detect(tmp_path): the call.
AppDetect ==
    /\ app = "loaded"
    /\ StartRequest
    /\ app' = "detecting"
    /\ UNCHANGED <<detector, lastLoad, cached, tmpFiles>>
    /\ UNCHANGED xvars

\* detect has returned: os.unlink(tmp_path).  Had it raised, the except clause
\* of the run would be entered with the file still there.
AppCleanup ==
    /\ app = "detecting"
    /\ pc \in {"done", "raised"}
    /\ IF pc = "done"
       THEN /\ tmpFiles' = tmpFiles - 1
            /\ app' = "cleaned"
       ELSE /\ app' = "failed_detect"
            /\ UNCHANGED tmpFiles
    /\ UNCHANGED <<detector, lastLoad, pc, calls, trimmed, signal, features, byLabel,
                   probabilities, cause, result, prev, cached>>
    /\ UNCHANGED xvars

\* The display of the result; an exception in it lands in the except clause.
AppShow ==
    /\ app = "cleaned"
    /\ \E ok \in BOOLEAN : app' = IF ok THEN "shown" ELSE "failed_display"
    /\ UNCHANGED <<detector, lastLoad, pc, calls, trimmed, signal, features, byLabel,
                   probabilities, cause, result, prev, cached, tmpFiles>>
    /\ UNCHANGED xvars

\* The positions in which a run has ended: the result displayed, or the except
\* clause entered from the write, the load, the detection or the display.
AppEnded == { "shown", "failed_write", "failed_load", "failed_detect", "failed_display" }

\* The script is run again (a new upload, a new click).
AppRerun ==
    /\ app \in AppEnded
    /\ app' = "idle"
    /\ UNCHANGED <<detector, lastLoad, pc, calls, trimmed, signal, features, byLabel,
                   probabilities, cause, result, prev, cached, tmpFiles>>
    /\ UNCHANGED xvars

(***************************************************************************)
(* extract_features called directly, while detect requests come and go on  *)
(* the same detector                                                       *)
(***************************************************************************)
\* detector.extract_features(audio_path): entry.
ExtractFeatures ==
    /\ detector.loaded
    /\ xpc \in {"idle", "done"}
    /\ xpc' = "preprocess"
    /\ xsignal' = NoSignal
    /\ xfeatures' = <<>>
    /\ UNCHANGED <<detector, lastLoad, pc, calls, trimmed, signal, features, byLabel,
                   probabilities, cause, result, prev, cached, app, tmpFiles>>

\* Load, trim, minimum length, fixed length, normalise; None (no features) on
\* a failed load or a signal that is too short.
ExtractPreprocess ==
    /\ xpc = "preprocess"
    /\ \E decodes \in BOOLEAN, fileLen \in FileLens, t \in Lens, peak \in Peaks :
         /\ t <= Load(fileLen)
         /\ (t = 0) => (peak = 0)
         /\ IF ~decodes \/ TooShort(t, SR)
            THEN /\ xpc' = "done"
                 /\ UNCHANGED xsignal
            ELSE /\ xsignal' = [len |-> FixLength(t), peak |-> Normalize(peak)]
                 /\ xpc' = "extract"
    /\ UNCHANGED <<detector, lastLoad, pc, calls, trimmed, signal, features, byLabel,
                   probabilities, cause, result, prev, cached, app, tmpFiles, xfeatures>>

\* The descriptors, assembled in order and returned; None on an exception.
ExtractCompute ==
    /\ xpc = "extract"
    /\ xpc' = "done"
    /\ xsignal' = NoSignal
    /\ \E ok \in BOOLEAN :
         xfeatures' = IF ok THEN FeatureList(xsignal.len) ELSE <<>>
    /\ UNCHANGED <<detector, lastLoad, pc, calls, trimmed, signal, features, byLabel,
                   probabilities, cause, result, prev, cached, app, tmpFiles>>

Next ==
    \/ Construct
    \/ Detect
    \/ Preprocess
    \/ ComputeFeatures
    \/ Scale
    \/ Classify
    \/ DecideStep
    \/ AppSave
    \/ AppLoadDetector
    \/ AppDetect
    \/ AppCleanup
    \/ AppShow
    \/ AppRerun

Spec == Init /\ [][Next]_vars

\* One detector shared by detect requests and direct extract_features calls,
\* whose steps interleave.
NextShared ==
    \/ Construct
    \/ Detect
    \/ Preprocess
    \/ ComputeFeatures
    \/ Scale
    \/ Classify
    \/ DecideStep
    \/ ExtractFeatures
    \/ ExtractPreprocess
    \/ ExtractCompute

SpecShared == Init /\ [][NextShared]_vars

(***************************************************************************)
(* Properties                                                              *)
(***************************************************************************)
Succeeded == pc = "done" /\ cause = "none"
LabelSet(classes) == Range(classes)

\* C1: in threshold mode the prediction is Synthetic exactly when the synthetic
\* probability is strictly above the configured threshold and Bonafide
\* otherwise (equality included), and the confidence is the probability of the
\* label returned.
C1_ThresholdDecision ==
    Succeeded =>
        LET bon == probabilities[1]
            syn == probabilities[2]
            thr == detector.threshold
        IN  /\ (result.prediction = "Synthetic") <=> (syn > thr)
            /\ (result.prediction = "Bonafide") <=> (syn <= thr)
            /\ (result.prediction = "Synthetic") => (result.confidence = syn)
            /\ (result.prediction = "Bonafide") => (result.confidence = bon)

\* A request whose synthetic probability equals the threshold came out Bonafide.
C1_Witness ==
    /\ Succeeded
    /\ probabilities[2] = detector.threshold
    /\ result.prediction = "Bonafide"
    /\ result.confidence = probabilities[1]

\* C2: a constructor call on a model whose label set is not {0, 1} raises, no
\* detector instance exists whose label set is not {0, 1}, and a request only
\* ever runs on a loaded detector.
C2_InvalidClassesRefused ==
    /\ (lastLoad.attempted /\ lastLoad.classes # <<>>
            /\ LabelSet(lastLoad.classes) # {0, 1}) => lastLoad.raised
    /\ detector.loaded => LabelSet(detector.classes) = {0, 1}
    /\ cached.loaded => LabelSet(cached.classes) = {0, 1}
    /\ (pc # "idle") => (detector.loaded /\ LabelSet(detector.classes) = {0, 1})

\* The constructor was given a model with classes [0, 2]: it raised and there is
\* no detector.
C2_Witness ==
    /\ lastLoad.attempted
    /\ lastLoad.classes = <<0, 2>>
    /\ lastLoad.raised
    /\ ~detector.loaded
    /\ pc = "idle"

\* C3: the bonafide probability reported is what the classifier assigned to
\* class label 0 and the synthetic probability what it assigned to label 1.
C3_ProbabilitiesByLabel ==
    Succeeded =>
        /\ result.bonafide_probability = byLabel[0]
        /\ result.synthetic_probability = byLabel[1]

\* A successful request in which the two labels got different probabilities.
C3_Witness ==
    /\ Succeeded
    /\ byLabel[0] = 200
    /\ byLabel[1] = 800
    /\ result.bonafide_probability = 200
    /\ result.synthetic_probability = 800

\* C4: a trimmed signal shorter than 0.5 s fails the request, one of 0.5 s or
\* more does not fail the length check, and the error of the short signal is
\* distinguishable from the error returned for a decode failure.
C4_InsufficientAudioKind ==
    /\ (pc = "done" /\ trimmed >= 0 /\ 2 * trimmed < SR)
            => (cause = "short" /\ "error" \in DOMAIN result)
    /\ (trimmed >= 0 /\ 2 * trimmed >= SR) => (cause # "short")
    /\ (pc = "done" /\ cause = "short" /\ prev.done /\ prev.cause = "decode")
            => (result.error # prev.result.error)

SuccessKeys ==
    { "prediction", "confidence", "bonafide_probability", "synthetic_probability",
      "threshold" }

\* C5: no exception leaves detect; a finished request holds either a success
\* dict without an error key or a dict with the error key alone, the latter
\* exactly when some stage failed; nothing is returned before the request ends.
C5_TaggedOutcome ==
    /\ pc # "raised"
    /\ (pc = "done") =>
          \/ (cause = "none" /\ SuccessKeys \subseteq DOMAIN result
                /\ "error" \notin DOMAIN result)
          \/ (cause # "none" /\ DOMAIN result = {"error"})
    /\ (pc # "done") => (result = NoResult)

\* The classifier raised and detect returned an error dict.
C5_Witness ==
    /\ pc = "done"
    /\ cause = "classify"
    /\ DOMAIN result = {"error"}

StageOrder == << "preprocess", "extract", "scale", "classify", "decide" >>
IsPrefix(s, t) == Len(s) <= Len(t) /\ \A i \in 1..Len(s) : s[i] = t[i]
FailingStage(what) ==
    CASE what \in {"decode", "short"} -> 1
      [] what = "features" -> 2
      [] what = "scale" -> 3
      [] what = "classify" -> 4
      [] OTHER -> 5

\* C6: the stages a request has invoked are a prefix of the fixed order (so
\* each ran at most once, in order), the failing stage is the last one invoked,
\* and neither the scaler nor the classifier is called once feature extraction
\* has failed.
C6_StageOrder ==
    /\ IsPrefix(calls, StageOrder)
    /\ (cause # "none") => (Len(calls) = FailingStage(cause))
    /\ (cause \in {"decode", "short", "features"})
            => ("scale" \notin Range(calls) /\ "classify" \notin Range(calls))

\* The descriptors failed: the request ended after two stages.
C6_Witness ==
    /\ pc = "done"
    /\ cause = "features"
    /\ calls = << "preprocess", "extract" >>

\* C7: a feature vector, once produced, has exactly 67 elements: MFCC means
\* (20), MFCC stds (20), centroid mean and std, rolloff mean and std, bandwidth
\* mean and std, zero-crossing-rate mean and std, chroma means (12) and
\* spectral-contrast means (7), whatever the length of the trimmed signal.
C7_FeatureLayout ==
    (features # <<>>) =>
        /\ Len(features) = 67
        /\ \A i \in 1..20 : /\ features[i] = << "mfcc", "mean", i >>
                            /\ features[20 + i] = << "mfcc", "std", i >>
        /\ features[41] = << "centroid", "mean", 1 >>
        /\ features[42] = << "centroid", "std", 1 >>
        /\ features[43] = << "rolloff", "mean", 1 >>
        /\ features[44] = << "rolloff", "std", 1 >>
        /\ features[45] = << "bandwidth", "mean", 1 >>
        /\ features[46] = << "bandwidth", "std", 1 >>
        /\ features[47] = << "zcr", "mean", 1 >>
        /\ features[48] = << "zcr", "std", 1 >>
        /\ \A i \in 1..12 : features[48 + i] = << "chroma", "mean", i >>
        /\ \A i \in 1..7 : features[60 + i] = << "contrast", "mean", i >>

\* Features were produced from a trimmed signal of exactly 0.5 s.
C7_Witness ==
    /\ trimmed = MinLen
    /\ Len(features) = 67

\* C8: the prediction is the class with the higher probability and the
\* confidence, being that probability, is never below the other class's.
C8_ArgmaxDecision ==
    Succeeded =>
        LET bon == probabilities[1]
            syn == probabilities[2]
        IN  /\ (syn > bon) => (result.prediction = "Synthetic")
            /\ (bon > syn) => (result.prediction = "Bonafide")
            /\ result.confidence >= bon
            /\ result.confidence >= syn

\* C9: an analysis run of the host script that has ended after its temporary
\* audio file was written (the detector failed to load, detection returned or
\* the display ended) has left no temporary audio file behind.
C9_TempFileReleased ==
    (app \in AppEnded \ {"failed_write"}) => (tmpFiles = 0)

\* C10: of two successful requests with the same classifier probabilities, if
\* the one under the higher threshold is Synthetic, so is the one under the
\* lower threshold.
C10_ThresholdMonotone ==
    (Succeeded /\ prev.done /\ prev.cause = "none"
        /\ prev.probabilities = probabilities) =>
        /\ (prev.threshold < detector.threshold /\ result.prediction = "Synthetic")
                => (prev.result.prediction = "Synthetic")
        /\ (detector.threshold < prev.threshold /\ prev.result.prediction = "Synthetic")
                => (result.prediction = "Synthetic")

\* The same probabilities were Synthetic under the lower threshold and are
\* Bonafide under the higher one.
C10_Witness ==
    /\ Succeeded
    /\ prev.done
    /\ prev.cause = "none"
    /\ prev.probabilities = probabilities
    /\ prev.threshold < detector.threshold
    /\ prev.result.prediction = "Synthetic"
    /\ result.prediction = "Bonafide"

\* A step of a detect request (its entry included) or of an extract_features
\* call, as opposed to the construction of a detector.
RequestStep == (pc' # pc /\ pc' # "idle") \/ (xpc' # xpc)

\* C11: no step of a detect request or of an extract_features call, successful
\* or failed, in whatever order the steps of the two interleave, changes the
\* detector's model classes, scaler or threshold: each such step runs on a
\* loaded detector and leaves it, and the cached instance, as the constructor
\* set them.
C11_ConfigFrozen ==
    [][RequestStep => (detector.loaded /\ detector' = detector /\ cached' = cached)]_vars

\* After a failed request, a detect request has reached the classifier while
\* an extract_features call is between its two halves, and the detector still
\* holds what it was built with.
C11_Witness ==
    /\ prev.done
    /\ prev.cause # "none"
    /\ pc = "classify"
    /\ xpc = "extract"
    /\ detector = [loaded |-> TRUE, classes |-> <<0, 1>>, scaler |-> "fitted",
                   threshold |-> 900]

====
